---- MODULE Spec2Model ----
(***************************************************************************)
(* Post scheduling and publication engine of aswiro/tmb.                   *)
(*                                                                         *)
(* The model follows one post row of the admin_posts table, the           *)
(* published_posts rows that belong to it, the APScheduler job store, and  *)
(* the database sessions that run concurrently on the asyncio loop:        *)
(*   - the client session of the authoring layer (the compositions of      *)
(*     examples/scheduler_usage.py and the plain AdminPostService calls),  *)
(*   - the date job PostScheduler._publish_post of the post,               *)
(*   - the interval job PostScheduler._check_scheduled_posts,              *)
(*   - the interval job PostScheduler._expire_posts.                       *)
(* Every session reads committed rows (READ COMMITTED, db_main.py:59),     *)
(* keeps what it loaded, and writes with UPDATE ... WHERE id = :id at its  *)
(* flush.  A session that has flushed and not yet committed holds the row  *)
(* lock, so no other session can write the row until it commits.           *)
(***************************************************************************)
EXTENDS Integers, FiniteSets, Sequences, TLC

\* ------------------------------------------------------------------ bounds
\* The run times the authoring layer asks for: the seconds 0..MaxSecs.
MaxSecs == 1
\* published_posts rows kept per (post, chat).
MaxRecords == 2
\* PostScheduler instances made by init_post_scheduler.
MaxInstances == 2

\* ------------------------------------------------------- program constants
\* scheduler_service.py:77: a SCHEDULED post is expired when it is overdue by
\* more than this many seconds.
GraceWindow == 86400

\* ------------------------------------------------------------------ domains
PostIds == {1, 2}
Chats == {10, 20}
\* The posts the authoring layer creates in Spec; the sweeps of SweepSpec run over
\* all of PostIds.
Authored == {1}

\* None, for a string column, a datetime column and an ARRAY column.
None == "None"
NoTime == 0 - 1
NoGroups == {0 - 1}

\* "This column is not in the UPDATE", per column type.
Keep == "keep"
KeepTime == 0 - 2
KeepGroups == {0 - 2}

\* The instants the clock visits: the first seconds, and the instant at which a
\* post scheduled for the last of them is overdue by exactly the grace window.
LastInstant == GraceWindow + MaxSecs
Instants == (0..MaxSecs) \cup {LastInstant}
NextInstant(t) == CHOOSE u \in Instants : u > t /\ \A v \in Instants : v > t => u <= v
\* The run times and target groups the authoring layer asks for.
RunTimes == 0..MaxSecs
GroupSets == {Chats}

\* models/admin_post.py PostStatus
DRAFT == "draft"
SCHEDULED == "scheduled"
PUBLISHED == "published"
EXPIRED == "expired"
CANCELLED == "cancelled"
ERROR == "error"
PostStatus == {DRAFT, SCHEDULED, PUBLISHED, EXPIRED, CANCELLED, ERROR}

\* The texts written to error_message (transliterated).
CancelUserMsg == "Otmeneno: Otmeneno polzovatelem"
CancelExpiredMsg == "Otmeneno: Srok publikacii istek"
PublishErrorMsg == "Oshibka publikacii"

VARIABLES
    now,        \* datetime.now()
    posts,      \* admin_posts: PostIds -> committed row, NoRow before create_draft
    records,    \* published_posts: number of rows per <<post_id, chat_id>>
    jobs,       \* the job store (Redis): set of [kind, post, run_at]
    running,    \* PostScheduler._running
    swept,      \* a check_scheduled_posts run has ended since expire_posts last ran
    client,     \* the authoring layer's session
    timer,      \* per post: "idle", or the status _publish_post in flight loaded
    sweep,      \* the posts the _check_scheduled_posts run in flight loaded
    failed,     \* history: a publish attempt on the post, loaded as SCHEDULED,
                \* failed, and no schedule_post call was made since
    moved,      \* history: the run time of the last completed reschedule of the
                \* post, NoTime once the authoring layer acts on the post again
    escaped,    \* an exception has left a job callback and reached the scheduler
    singleton   \* the module global post_scheduler, the PostScheduler instances
                \* made and started, and what the last global call returned

vars == <<now, posts, records, jobs, running, swept, client, timer, sweep, failed, moved, escaped,
          singleton>>

\* ------------------------------------------------------------- the stores
\* AdminPost columns the engine reads and writes (models/admin_post.py).
Cols == {"status", "scheduled_at", "published_at", "error_message", "target_groups"}
NewRow == [status |-> DRAFT, scheduled_at |-> NoTime, published_at |-> NoTime,
           error_message |-> None, target_groups |-> NoGroups]
NoRow == [status |-> "absent", scheduled_at |-> NoTime, published_at |-> NoTime,
          error_message |-> None, target_groups |-> NoGroups]
KeepRow == [status |-> Keep, scheduled_at |-> KeepTime, published_at |-> KeepTime,
            error_message |-> Keep, target_groups |-> KeepGroups]

Exists(p) == posts[p] # NoRow

\* BaseRepository.update on an instance loaded as `loaded`: setattr for every key of
\* `changes`, then flush.  The UPDATE the flush emits names the attributes whose
\* value differs from the loaded one (`fresh` names values of datetime.now() and
\* texts built from an exception, never equal to a loaded value).  The result is
\* the UPDATE: a row of new values, with Keep for the columns it does not name.
RepoUpdate(loaded, changes, fresh) ==
    [c \in Cols |->
        IF c \in DOMAIN changes /\ (c \in fresh \/ changes[c] # loaded[c])
        THEN changes[c] ELSE KeepRow[c]]

\* The committed row after the UPDATE `delta` is committed.
Commit(committed, delta) ==
    [c \in Cols |-> IF delta[c] = KeepRow[c] THEN committed[c] ELSE delta[c]]

\* What a session that read only `status` knows of the post.
Loaded(status) == [NewRow EXCEPT !.status = status]

\* Job ids: 'publish_post_<id>', 'check_scheduled_posts', 'expire_posts'.
PublishJob(p, t) == [kind |-> "publish_post", post |-> p, run_at |-> t]
CheckJob == [kind |-> "check_scheduled_posts", post |-> 0, run_at |-> 60]
ExpireJob == [kind |-> "expire_posts", post |-> 0, run_at |-> 3600]
JobsOf(p) == {j \in jobs : j.kind = "publish_post" /\ j.post = p}

\* scheduler.add_job(..., id=job_id, replace_existing=True)
AddJob(store, job) ==
    {j \in store : ~(j.kind = job.kind /\ j.post = job.post)} \cup {job}

\* scheduler.remove_job(job_id)
RemoveJob(store, kind, p) == {j \in store : ~(j.kind = kind /\ j.post = p)}

\* schedule_post adding its job under a new id each time: nothing is removed and
\* nothing is replaced.
SchedulerScheduleAdding(store, p, t) == store \cup {PublishJob(p, t)}

\* PostScheduler.schedule_post: remove the existing job if any, add the new one.
SchedulerSchedule(store, p, t) ==
    AddJob(RemoveJob(store, "publish_post", p), PublishJob(p, t))

\* PostScheduler.cancel_scheduled_post
SchedulerCancel(store, p) == RemoveJob(store, "publish_post", p)

\* PostScheduler.reschedule_post: cancel, then schedule.
SchedulerReschedule(store, p, t) == SchedulerSchedule(SchedulerCancel(store, p), p, t)

\* The client's session: pc, the operation and its arguments, and the row loaded
\* (pc = "read") or the UPDATE flushed (pc = "flushed").
Idle == [pc |-> "idle", op |-> None, post |-> 0, t |-> NoTime, row |-> NoRow]

\* post_scheduler: Optional[PostScheduler] = None.  Instances are numbered from 1
\* in the order they are made.
NoInstance == 0
NoScheduler == [post_scheduler |-> NoInstance, made |-> 0, started |-> {},
                raised |-> FALSE, returned |-> NoInstance]

Init ==
    /\ now = 0
    /\ posts = [p \in PostIds |-> NoRow]
    /\ records = [k \in PostIds \X Chats |-> 0]
    /\ jobs = {}
    /\ running = FALSE
    /\ swept = FALSE
    /\ client = Idle
    /\ timer = [p \in PostIds |-> "idle"]
    /\ sweep = {}
    /\ failed = [p \in PostIds |-> FALSE]
    /\ moved = [p \in PostIds |-> NoTime]
    /\ escaped = FALSE
    /\ singleton = NoScheduler

\* No session holds the lock of p's row: the client's session is the only one that
\* does other work (the job store call) between its flush and its commit.
Unlocked(p) == ~(client.pc = "flushed" /\ client.post = p /\ client.row # KeepRow)

\* No operation is under way: the client's session has ended and no job run is
\* in flight.
Quiet == client.pc = "idle" /\ sweep = {} /\ \A p \in PostIds : timer[p] = "idle"

\* ------------------------------------------------------------------ clock
\* _check_scheduled_posts runs every minute and _expire_posts every hour, armed
\* together: at every instant a sweep has ended before expire_posts runs.  No
\* session stays open for the day that passes before the last instant.
Tick ==
    /\ now < LastInstant
    /\ NextInstant(now) > now + 1 => Quiet
    /\ now' = NextInstant(now)
    /\ swept' = FALSE
    /\ UNCHANGED <<posts, records, jobs, running, client, timer, sweep, failed, moved, escaped, singleton>>

\* ------------------------------------------------- the authoring layer
\* AdminPostService.create_draft, committed when its session ends.
CreateDraft(p) ==
    /\ client.pc = "idle"
    /\ ~Exists(p)
    /\ posts' = [posts EXCEPT ![p] = NewRow]
    /\ UNCHANGED <<now, records, jobs, running, swept, client, timer, sweep, failed, moved, escaped, singleton>>

\* AdminPostService.add_published_post: one more published_posts row.
AddPublishedPost(p, chat) ==
    /\ client.pc = "idle"
    /\ Exists(p)
    /\ records[<<p, chat>>] < MaxRecords
    /\ records' = [records EXCEPT ![<<p, chat>>] = @ + 1]
    /\ UNCHANGED <<now, posts, jobs, running, swept, client, timer, sweep, failed, moved, escaped, singleton>>

\* The keyword arguments each operation passes to repo.update.
PublishChanges(groups, t) ==
    IF t # NoTime
    THEN [status |-> SCHEDULED, target_groups |-> groups,
          published_at |-> NoTime, scheduled_at |-> t]
    ELSE [status |-> PUBLISHED, target_groups |-> groups,
          published_at |-> now, scheduled_at |-> NoTime]
RescheduleChanges(t) == [scheduled_at |-> t]
CancelChanges(msg) == [status |-> CANCELLED, error_message |-> msg]
ErrorChanges(msg) == [status |-> ERROR, error_message |-> msg]
ExecutorChanges == [status |-> PUBLISHED, published_at |-> now]

\* The first statement of every operation: post = await repo.get_by_id(post_id),
\* and the check that follows it.  An operation that returns None here ends with
\* nothing changed.
Proceeds(op, row) ==
    CASE op = "schedule"      -> row # NoRow
      [] op = "publish_now"   -> row # NoRow
      [] op = "mark_as_error" -> row # NoRow
      [] op = "reschedule"    -> row # NoRow /\ row.status = SCHEDULED
      [] op = "cancel"        -> row # NoRow /\ row.status \notin {PUBLISHED, CANCELLED}

\* The UPDATE of operation op with run time t on a post loaded as `loaded`.
ServiceUpdate(op, t, groups, loaded) ==
    CASE op = "schedule" ->
            RepoUpdate(loaded, PublishChanges(groups, t), {})
      [] op = "publish_now" ->
            RepoUpdate(loaded, PublishChanges(groups, NoTime), {"published_at"})
      [] op = "mark_as_error" ->
            RepoUpdate(loaded, ErrorChanges(PublishErrorMsg), {"error_message"})
      [] op = "reschedule" ->
            RepoUpdate(loaded, RescheduleChanges(t), {})
      [] op = "cancel" ->
            RepoUpdate(loaded, CancelChanges(CancelUserMsg), {})

\* AdminPostService.publish_post(post_id, target_groups) and mark_as_error(post_id,
\* message), called on their own and committed when the session ends.
Plain(op, p, groups) ==
    /\ client.pc = "idle"
    /\ Proceeds(op, posts[p])
    /\ Unlocked(p)
    /\ posts' = [posts EXCEPT ![p] = Commit(@, ServiceUpdate(op, NoTime, groups, @))]
    /\ moved' = IF op = "publish_now" THEN [moved EXCEPT ![p] = NoTime] ELSE moved
    /\ UNCHANGED <<now, records, jobs, running, swept, client, timer, sweep, failed, escaped, singleton>>

\* "schedule", "reschedule" and "cancel" are the compositions of
\* examples/scheduler_usage.py: the service call (get_by_id, then update and its
\* flush), the PostScheduler call, then uow.commit().
ClientRead(op, p, t) ==
    /\ client.pc = "idle"
    /\ Proceeds(op, posts[p])
    /\ client' = [pc |-> "read", op |-> op, post |-> p, t |-> t, row |-> posts[p]]
    /\ UNCHANGED <<now, posts, records, jobs, running, swept, timer, sweep, failed, moved, escaped, singleton>>

\* The service call of example_reschedule_post or example_cancel_post returned
\* None: the composition takes its else branch, prints its error line, and calls
\* neither the PostScheduler nor uow.commit().
ClientRefuse(op, p) ==
    /\ client.pc = "idle"
    /\ ~Proceeds(op, posts[p])
    /\ client' = [pc |-> "refused", op |-> op, post |-> p, t |-> NoTime, row |-> posts[p]]
    /\ UNCHANGED <<now, posts, records, jobs, running, swept, timer, sweep, failed, moved, escaped, singleton>>

\* The end of the session of a refused composition.
ClientReturn ==
    /\ client.pc = "refused"
    /\ client' = Idle
    /\ UNCHANGED <<now, posts, records, jobs, running, swept, timer, sweep, failed, moved, escaped, singleton>>

\* The PostScheduler call of a composition, made after the service call returned.
ClientJobs ==
    CASE client.op = "schedule"   -> SchedulerSchedule(jobs, client.post, client.t)
      [] client.op = "reschedule" -> SchedulerReschedule(jobs, client.post, client.t)
      [] client.op = "cancel"     -> SchedulerCancel(jobs, client.post)

\* The flush of the service call, then the job store call.  The session keeps the
\* row locked until it commits.
ClientFlush(groups) ==
    /\ client.pc = "read"
    /\ client' = [client EXCEPT
                    !.pc = "flushed",
                    !.row = ServiceUpdate(client.op, client.t, groups, client.row)]
    /\ jobs' = ClientJobs
    /\ failed' = IF client.op = "schedule"
                 THEN [failed EXCEPT ![client.post] = FALSE] ELSE failed
    /\ moved' = [moved EXCEPT ![client.post] = NoTime]
    /\ UNCHANGED <<now, posts, records, running, swept, timer, sweep, escaped, singleton>>

\* await uow.commit() of a composition.
ClientCommit ==
    /\ client.pc = "flushed"
    /\ posts' = [posts EXCEPT ![client.post] = Commit(@, client.row)]
    /\ client' = Idle
    /\ moved' = IF client.op = "reschedule"
                THEN [moved EXCEPT ![client.post] = client.t] ELSE moved
    /\ UNCHANGED <<now, records, jobs, running, swept, timer, sweep, failed, escaped, singleton>>

\* -------------------------------------------------------- PostScheduler
\* The statements of each job callback that can raise.
Statements(callback) ==
    CASE callback = "_publish_post" ->
            {"get_session", "get_by_id", "publish_scheduled_post", "commit", "rollback"}
      [] callback = "_check_scheduled_posts" ->
            {"get_session", "check_scheduled_posts", "commit"}
      [] callback = "_expire_posts" ->
            {"get_session", "expire_posts", "commit"}

\* The callbacks with uow.commit() and uow.rollback() placed after the try.
TryBodyBeforeCommit(callback) == Statements(callback) \ {"commit", "rollback"}

\* The statements inside the callback's try ... except Exception: all of them.
TryBody(callback) == Statements(callback)

\* An exception raised at `statement` leaves the callback.
Escapes(callback, statement) == statement \notin TryBody(callback)

\* PostScheduler.start adding the job 'check_scheduled_posts' only.
StartCheckOnly ==
    /\ ~running
    /\ running' = TRUE
    /\ jobs' = AddJob(jobs, CheckJob)
    /\ swept' = FALSE
    /\ UNCHANGED <<now, posts, records, client, timer, sweep, failed, moved, escaped, singleton>>

\* PostScheduler.start: the two interval jobs are (re)armed.
Start ==
    /\ ~running
    /\ running' = TRUE
    /\ jobs' = AddJob(AddJob(jobs, CheckJob), ExpireJob)
    /\ swept' = FALSE
    /\ UNCHANGED <<now, posts, records, client, timer, sweep, failed, moved, escaped, singleton>>

\* PostScheduler.stop: scheduler.shutdown() cancels the job runs in flight; their
\* sessions end without a commit.  The job store is kept.
Stop ==
    /\ running
    /\ running' = FALSE
    /\ timer' = [p \in PostIds |-> "idle"]
    /\ sweep' = {}
    /\ UNCHANGED <<now, posts, records, jobs, swept, client, failed, moved, escaped, singleton>>

\* The date job of p comes due: the scheduler removes it from the store and runs
\* _publish_post(p), which opens a session and loads the post.
\* One run per post is followed at a time (max_instances allows three).
Fire(p) ==
    /\ running
    /\ timer[p] = "idle"
    /\ \E j \in JobsOf(p) :
        /\ j.run_at <= now
        /\ jobs' = jobs \ {j}
    /\ timer' = [timer EXCEPT ![p] = IF Exists(p) THEN posts[p].status ELSE "idle"]
    /\ UNCHANGED <<now, posts, records, running, swept, client, sweep, failed, moved, escaped, singleton>>

\* job_defaults sets no misfire_grace_time: a date job found late (the scheduler
\* was stopped at its run time) is dropped without running.
Misfire(p) ==
    /\ running
    /\ \E j \in JobsOf(p) :
        /\ j.run_at < now
        /\ jobs' = jobs \ {j}
    /\ UNCHANGED <<now, posts, records, running, swept, client, timer, sweep, failed, moved, escaped, singleton>>

\* SchedulerService.publish_scheduled_post(post) on a post loaded with `status`:
\* the UPDATE.
ExecutorUpdate(status) == RepoUpdate(Loaded(status), ExecutorChanges, {"published_at"})

\* _publish_post: publish_scheduled_post returned True, uow.commit().
TimerPublish(p) ==
    /\ timer[p] # "idle"
    /\ Unlocked(p)
    /\ posts' = [posts EXCEPT ![p] = Commit(@, ExecutorUpdate(timer[p]))]
    /\ timer' = [timer EXCEPT ![p] = "idle"]
    /\ UNCHANGED <<now, records, jobs, running, swept, client, sweep, failed, moved, escaped, singleton>>

\* _publish_post: repo.update raised.  publish_scheduled_post calls mark_as_error
\* and returns False, and _publish_post calls uow.rollback(); or mark_as_error
\* raised too, or uow.commit() or uow.rollback() did, and the session is rolled
\* back as it closes.  `statement` is the one whose exception reached the
\* callback.
TimerFail(p) ==
    /\ timer[p] # "idle"
    /\ timer' = [timer EXCEPT ![p] = "idle"]
    /\ failed' = IF timer[p] = SCHEDULED THEN [failed EXCEPT ![p] = TRUE] ELSE failed
    /\ \E statement \in {"publish_scheduled_post", "commit", "rollback"} :
          escaped' = (escaped \/ Escapes("_publish_post", statement))
    /\ UNCHANGED <<now, posts, records, jobs, running, swept, client, sweep, moved, singleton>>

\* ------------------------------------------------ the reconciliation sweep
\* get_ready_to_publish with the comparison of scheduled_at turned round: posts
\* not yet due are selected, overdue ones are not.
ReadyToPublishNotYetDue ==
    {p \in PostIds : /\ Exists(p)
                     /\ posts[p].status = SCHEDULED
                     /\ posts[p].scheduled_at # NoTime
                     /\ posts[p].scheduled_at >= now}

\* AdminPostRepository.get_ready_to_publish
ReadyToPublish ==
    {p \in PostIds : /\ Exists(p)
                     /\ posts[p].status = SCHEDULED
                     /\ posts[p].scheduled_at # NoTime
                     /\ posts[p].scheduled_at <= now}

\* _check_scheduled_posts opens a session and check_scheduled_posts runs the query.
\* With nothing ready the run ends here.
SweepStart ==
    /\ running
    /\ CheckJob \in jobs
    /\ sweep = {}
    /\ sweep' = ReadyToPublish
    /\ swept' = IF ReadyToPublish = {} THEN TRUE ELSE swept
    /\ UNCHANGED <<now, posts, records, jobs, running, client, timer, failed, moved, escaped, singleton>>

\* publish_scheduled_post when repo.update raised and mark_as_error went through:
\* the attributes update() had set are still pending on the instance, and
\* mark_as_error sets status and error_message over them.
MarkedUpdate(status) ==
    RepoUpdate(Loaded(status),
               [status |-> ERROR, error_message |-> PublishErrorMsg, published_at |-> now],
               {"published_at", "error_message"})

\* The loop of check_scheduled_posts over `order`, the ready posts in the order
\* the query returned them.  outcome[p] is "ok" (update went through), "marked"
\* (update raised, mark_as_error went through) or "raised" (mark_as_error raised
\* too: the exception leaves the loop).  The result maps each post to its UPDATE.
RECURSIVE SweepLoop(_, _, _)
SweepLoop(order, outcome, acc) ==
    IF order = <<>> THEN acc
    ELSE LET p == Head(order) IN
         CASE outcome[p] = "ok" ->
                SweepLoop(Tail(order), outcome,
                          [acc EXCEPT ![p] = ExecutorUpdate(SCHEDULED)])
           [] outcome[p] = "marked" ->
                SweepLoop(Tail(order), outcome,
                          [acc EXCEPT ![p] = MarkedUpdate(SCHEDULED)])
           [] outcome[p] = "raised" -> acc

\* The sequences that list every element of S once.
Orders(S) ==
    {o \in [1..Cardinality(S) -> S] : \A i, j \in 1..Cardinality(S) : i # j => o[i] # o[j]}

NoUpdates == [p \in PostIds |-> KeepRow]

\* The rows after a session commits `updates`.
CommitAll(updates) == [p \in PostIds |-> Commit(posts[p], updates[p])]

\* The posts of `order` whose publish attempt was made and did not end committed
\* as published.
FailedIn(order, outcome, committed) ==
    {order[i] : i \in {k \in 1..Len(order) :
                        /\ \A h \in 1..(k - 1) : outcome[order[h]] # "raised"
                        /\ ~committed \/ outcome[order[k]] # "ok"}}

\* The end of a sweep: the loop, then uow.commit(), which goes through or raises.
SweepEnd(order, outcome, committed) ==
    /\ sweep # {}
    /\ \A p \in sweep : Unlocked(p)
    /\ posts' = IF committed
                THEN CommitAll(SweepLoop(order, outcome, NoUpdates))
                ELSE posts
    /\ sweep' = {}
    /\ swept' = TRUE
    /\ failed' = [p \in PostIds |->
                    failed[p] \/ p \in FailedIn(order, outcome, committed)]
    /\ escaped' = (escaped \/ (~committed /\ Escapes("_check_scheduled_posts", "commit")))
    /\ UNCHANGED <<now, records, jobs, running, client, timer, moved, singleton>>

\* A sweep in which every update went through, and the commit too.
SweepPublish ==
    \E order \in Orders(sweep) : SweepEnd(order, [p \in sweep |-> "ok"], TRUE)

\* A sweep in which an update raised, or the commit did.
SweepFail ==
    \E order \in Orders(sweep), outcome \in [sweep -> {"ok", "marked", "raised"}],
       committed \in BOOLEAN :
        /\ ~committed \/ \E p \in sweep : outcome[p] # "ok"
        /\ SweepEnd(order, outcome, committed)

\* --------------------------------------------------- the expiration sweep
\* expire_posts: of the SCHEDULED posts, those overdue by more than the grace
\* window at current_time.
Overdue ==
    {p \in PostIds : /\ Exists(p)
                     /\ posts[p].status = SCHEDULED
                     /\ posts[p].scheduled_at # NoTime
                     /\ now - posts[p].scheduled_at > GraceWindow}

\* cancel_post(post.id, reason) on a post the session loaded as SCHEDULED.
ExpireUpdate ==
    RepoUpdate(Loaded(SCHEDULED), CancelChanges(CancelExpiredMsg), {"error_message"})

\* The loop of expire_posts over `order`, of which the first n cancel_post calls
\* went through; an exception leaves the loop, and uow.commit() follows.
ExpireLoop(order, n) ==
    [p \in PostIds |->
        IF \E i \in 1..n : order[i] = p THEN ExpireUpdate ELSE KeepRow]

\* One run of _expire_posts.  It runs hourly and _check_scheduled_posts every
\* minute, armed together: a sweep has ended before every run of expire_posts.
ExpireRun(order, n, committed) ==
    /\ running
    /\ ExpireJob \in jobs
    /\ swept
    /\ \A p \in Overdue : Unlocked(p)
    /\ posts' = IF committed THEN CommitAll(ExpireLoop(order, n)) ELSE posts
    /\ swept' = FALSE
    /\ escaped' = (escaped \/ (~committed /\ Escapes("_expire_posts", "commit")))
    /\ UNCHANGED <<now, records, jobs, running, client, timer, sweep, failed, moved, singleton>>

\* Every cancel_post went through, and the commit too.
ExpirePosts ==
    \E order \in Orders(Overdue) : ExpireRun(order, Cardinality(Overdue), TRUE)

\* A cancel_post raised, which ends the loop, or the commit did.
ExpireFail ==
    /\ Overdue # {}
    /\ \E order \in Orders(Overdue), n \in 0..Cardinality(Overdue), committed \in BOOLEAN :
        /\ ~committed \/ n < Cardinality(Overdue)
        /\ ExpireRun(order, n, committed)

\* expire_posts when the driver loads scheduled_at timezone-aware (asyncpg, the
\* default of config/settings.py; SQLite loads it naive): current_time is naive,
\* and current_time - post.scheduled_at raises TypeError at the first SCHEDULED
\* post that has scheduled_at.  The except of expire_posts ends the loop, and
\* uow.commit() commits nothing.
ExpireAware ==
    /\ running
    /\ ExpireJob \in jobs
    /\ swept
    /\ \E p \in PostIds : posts[p].status = SCHEDULED /\ posts[p].scheduled_at # NoTime
    /\ swept' = FALSE
    /\ UNCHANGED <<now, posts, records, jobs, running, client, timer, sweep, failed, moved, escaped, singleton>>

\* ------------------------------------------------------ the specification
Next ==
    \/ Tick
    \/ \E p \in Authored : CreateDraft(p)
    \/ \E p \in PostIds, chat \in Chats : AddPublishedPost(p, chat)
    \/ \E p \in PostIds, groups \in GroupSets : Plain("publish_now", p, groups)
    \/ \E p \in PostIds, groups \in GroupSets : Plain("mark_as_error", p, groups)
    \/ \E p \in PostIds, t \in RunTimes : ClientRead("schedule", p, t)
    \/ \E p \in PostIds, t \in RunTimes : ClientRead("reschedule", p, t)
    \/ \E p \in PostIds : ClientRead("cancel", p, NoTime)
    \/ \E p \in PostIds : ClientRefuse("reschedule", p)
    \/ \E p \in PostIds : ClientRefuse("cancel", p)
    \/ ClientReturn
    \/ \E groups \in GroupSets : ClientFlush(groups)
    \/ ClientCommit
    \/ Start
    \/ Stop
    \/ \E p \in PostIds : Fire(p)
    \/ \E p \in PostIds : Misfire(p)
    \/ \E p \in PostIds : TimerPublish(p)
    \/ \E p \in PostIds : TimerFail(p)
    \/ SweepStart
    \/ SweepPublish
    \/ SweepFail
    \/ ExpirePosts
    \/ ExpireFail
    \/ ExpireAware

Spec == Init /\ [][Next]_vars

\* ------------------------------------------------------------- properties
\* C1: at most once under concurrent triggers.  When several executor
\* invocations run for the same SCHEDULED post, one performs the transition to
\* PUBLISHED and every other is a no-op: an invocation that loaded the post as
\* SCHEDULED and ends when another invocation has already made it PUBLISHED
\* (scheduled_at is still set: publish_post clears it when it publishes at once)
\* changes nothing of it.
C1_AtMostOnce ==
    [][\A p \in PostIds :
          /\ posts[p].status = PUBLISHED
          /\ posts[p].scheduled_at # NoTime
          /\ \/ timer[p] = SCHEDULED /\ TimerPublish(p)
             \/ p \in sweep /\ SweepPublish
          => posts'[p] = posts[p]]_vars

\* C2: executor guard.  An executor invocation for a post whose status is not
\* SCHEDULED, when the invocation loads it and still when it ends, returns
\* success and leaves status, published_at and error_message unchanged.
C2_ExecutorGuard ==
    [][\A p \in PostIds :
          timer[p] # SCHEDULED /\ posts[p].status = timer[p] /\ TimerPublish(p)
          => /\ posts'[p].status = posts[p].status
             /\ posts'[p].published_at = posts[p].published_at
             /\ posts'[p].error_message = posts[p].error_message]_vars

\* C3: cancel is safe against an in-flight firing.  A post CANCELLED by the
\* user's cancel is never made PUBLISHED by a firing, and a cancel never makes a
\* PUBLISHED post CANCELLED.
C3_CancelSafe ==
    [][\A p \in PostIds :
          /\ ~ /\ posts[p].status = CANCELLED
               /\ posts[p].error_message = CancelUserMsg
               /\ posts'[p].status = PUBLISHED
               /\ TimerPublish(p) \/ SweepPublish
          /\ ~ /\ posts[p].status = PUBLISHED
               /\ posts'[p].status = CANCELLED
               /\ ClientCommit]_vars

\* The edges of the status graph of C4.
StatusEdges ==
    {<<"absent", DRAFT>>, <<DRAFT, SCHEDULED>>, <<SCHEDULED, PUBLISHED>>,
     <<SCHEDULED, ERROR>>, <<SCHEDULED, CANCELLED>>, <<SCHEDULED, EXPIRED>>,
     <<ERROR, SCHEDULED>>}

\* C4: status transition graph.  Every change of a post's status is DRAFT ->
\* SCHEDULED, SCHEDULED -> PUBLISHED, ERROR, CANCELLED or EXPIRED, or ERROR ->
\* SCHEDULED; PUBLISHED, CANCELLED and EXPIRED are never left.
C4_TransitionGraph ==
    [][\A p \in PostIds :
          posts'[p].status # posts[p].status
          => <<posts[p].status, posts'[p].status>> \in StatusEdges]_vars

\* C5: job release on exit from SCHEDULED.  Once an operation has completed, a
\* live job publish_post_<id> exists only if the post is SCHEDULED.
C5_JobRelease ==
    Quiet => \A p \in PostIds : JobsOf(p) # {} => posts[p].status = SCHEDULED

\* C6: reschedule replaces, not adds.  After a completed reschedule of P to T2
\* the only live job of P is the one with run time T2, and P is not published
\* before T2 (at the run time it was moved from).
C6_RescheduleReplaces ==
    \A p \in PostIds :
        moved[p] # NoTime
        => /\ JobsOf(p) \subseteq {PublishJob(p, moved[p])}
           /\ posts[p].status = PUBLISHED => posts[p].published_at >= moved[p]

\* C8: publish failure recorded.  When a publish attempt for a SCHEDULED post
\* fails, by the timer or by the sweep, the committed state that follows has
\* status ERROR and a non-empty error_message.
C8_FailureRecorded ==
    [][\A p \in PostIds :
          posts[p].status = SCHEDULED /\ ~failed[p] /\ failed'[p]
          => /\ posts'[p].status = ERROR
             /\ posts'[p].error_message # None]_vars

\* C9: no automatic retry after failure.  After a failed publish attempt no
\* timer run and no sweep attempts the post again until schedule_post is called.
C9_NoAutomaticRetry ==
    [][\A p \in PostIds :
          failed[p]
          => /\ ~(Fire(p) /\ timer'[p] # "idle")
             /\ ~(SweepStart /\ p \in sweep')]_vars

\* C10: a PUBLISHED post has published_at set and at least one published_posts
\* row.
C10_PublishedHasRecord ==
    \A p \in PostIds :
        posts[p].status = PUBLISHED
        => /\ posts[p].published_at # NoTime
           /\ \E chat \in Chats : records[<<p, chat>>] > 0

\* ----------------------------------------------------------- crash recovery
\* The engine with no database failure, and an authoring layer that schedules
\* each draft once, for a time not yet past.  A timer run in flight may never
\* complete; the scheduler may be stopped at any point and is started again; a
\* sweep that is started again and again completes.
LiveNext ==
    \/ Tick
    \/ \E p \in Authored : CreateDraft(p)
    \/ \E p \in PostIds, t \in RunTimes :
          posts[p].status = DRAFT /\ t >= now /\ ClientRead("schedule", p, t)
    \/ \E groups \in GroupSets : ClientFlush(groups)
    \/ ClientCommit
    \/ Start
    \/ Stop
    \/ \E p \in PostIds : Fire(p)
    \/ \E p \in PostIds : Misfire(p)
    \/ \E p \in PostIds : TimerPublish(p)
    \/ SweepStart
    \/ SweepPublish
    \/ ExpirePosts
    \/ ExpireAware

LiveSpec ==
    /\ Init
    /\ [][LiveNext]_vars
    /\ WF_vars(Tick)
    /\ WF_vars(ClientCommit)
    /\ WF_vars(Start)
    /\ SF_vars(SweepStart)
    /\ SF_vars(SweepPublish)

\* C7: crash recovery.  A post scheduled for T, with the scheduler stopped and
\* started again at any point before or after T, leaves SCHEDULED only by being
\* published, at or after T, and it eventually is: no restart loses it.
C7_CrashRecovery ==
    /\ [][\A p \in PostIds :
             posts[p].status = SCHEDULED /\ posts'[p].status # SCHEDULED
             => /\ posts'[p].status = PUBLISHED
                /\ posts'[p].published_at >= posts[p].scheduled_at]_vars
    /\ \A p \in PostIds :
          posts[p].status = SCHEDULED
          ~> posts[p].status = PUBLISHED /\ posts[p].published_at >= posts[p].scheduled_at

\* The scheduler was started and then stopped; the post is due and SCHEDULED,
\* and its date job is gone from the store without having published it.
C7_Witness ==
    \E p \in PostIds :
        /\ ~running
        /\ CheckJob \in jobs
        /\ posts[p].status = SCHEDULED
        /\ posts[p].scheduled_at <= now
        /\ JobsOf(p) = {}

\* ------------------------------------------------- the engine as deployed
\* No code path of the repository calls add_published_post: the engine with the
\* operations that have callers.
EngineNext ==
    \/ Tick
    \/ \E p \in Authored : CreateDraft(p)
    \/ \E p \in PostIds, groups \in GroupSets : Plain("publish_now", p, groups)
    \/ \E p \in PostIds, groups \in GroupSets : Plain("mark_as_error", p, groups)
    \/ \E p \in PostIds, t \in RunTimes : ClientRead("schedule", p, t)
    \/ \E p \in PostIds, t \in RunTimes : ClientRead("reschedule", p, t)
    \/ \E p \in PostIds : ClientRead("cancel", p, NoTime)
    \/ \E p \in PostIds : ClientRefuse("reschedule", p)
    \/ \E p \in PostIds : ClientRefuse("cancel", p)
    \/ ClientReturn
    \/ \E groups \in GroupSets : ClientFlush(groups)
    \/ ClientCommit
    \/ Start
    \/ Stop
    \/ \E p \in PostIds : Fire(p)
    \/ \E p \in PostIds : Misfire(p)
    \/ \E p \in PostIds : TimerPublish(p)
    \/ \E p \in PostIds : TimerFail(p)
    \/ SweepStart
    \/ SweepPublish
    \/ SweepFail
    \/ ExpirePosts
    \/ ExpireFail
    \/ ExpireAware

EngineSpec == Init /\ [][EngineNext]_vars

\* ------------------------------------------------- sweeps over several posts
\* Every post is created and scheduled once, for a time not yet past, and the
\* two periodic jobs run over them; a date job that comes due while the sweeps
\* hold the posts is dropped as a misfire.
SweepNext ==
    \/ Tick
    \/ \E p \in PostIds : CreateDraft(p)
    \/ \E p \in PostIds, t \in RunTimes :
          posts[p].status = DRAFT /\ t >= now /\ ClientRead("schedule", p, t)
    \/ \E groups \in GroupSets : ClientFlush(groups)
    \/ ClientCommit
    \/ Start
    \/ \E p \in PostIds : Misfire(p)
    \/ SweepStart
    \/ SweepPublish
    \/ SweepFail
    \/ ExpirePosts
    \/ ExpireFail
    \/ ExpireAware

SweepSpec == Init /\ [][SweepNext]_vars

\* ------------------------------------------------- properties, continued
\* C11: at most one published_posts row exists for a pair (post, chat).
C11_OneRecordPerDestination ==
    \A p \in PostIds, chat \in Chats : records[<<p, chat>>] <= 1

\* C12: partial multi-destination failure.  A timer run on a SCHEDULED post with
\* the destinations 10 and 20 that fails after the first destination leaves the
\* post committed as ERROR, with a published_posts row for 10 and none for 20.
C12_PartialFailure ==
    [][\A p \in PostIds :
          /\ timer[p] = SCHEDULED
          /\ posts[p].status = SCHEDULED
          /\ posts[p].target_groups = {10, 20}
          /\ records[<<p, 10>>] = 0
          /\ TimerFail(p)
          => /\ posts'[p].status = ERROR
             /\ records'[<<p, 10>>] = 1
             /\ records'[<<p, 20>>] = 0]_vars

\* C13: schedule precondition.  schedule_post on a PUBLISHED, CANCELLED or
\* EXPIRED post fails: the flush of the composition changes neither the row nor
\* the job store, and its commit leaves the post as it was.
C13_SchedulePrecondition ==
    [][/\ client.op = "schedule"
       /\ posts[client.post].status \in {PUBLISHED, CANCELLED, EXPIRED}
       => /\ client.pc = "read" /\ client'.pc = "flushed"
             => jobs' = jobs /\ client'.row = KeepRow
          /\ client.pc = "flushed" /\ client'.pc = "idle"
             => posts' = posts]_vars

\* C14: idempotent cancel.  A cancel composition on a scheduled post that a
\* cancel has already made CANCELLED succeeds again: it is not refused, and it changes
\* neither the post nor the job store.
C14_IdempotentCancel ==
    [][\A p \in PostIds :
          /\ posts[p].status = CANCELLED
          /\ posts[p].scheduled_at # NoTime
          /\ posts[p].error_message = CancelUserMsg
          /\ client.pc = "idle"
          /\ client'.pc # "idle" /\ client'.op = "cancel" /\ client'.post = p
          => /\ client'.pc = "read"
             /\ posts' = posts
             /\ jobs' = jobs]_vars

\* C15: reschedule precondition.  A reschedule composition on a post that is not
\* SCHEDULED, or that has no job in the store, is refused; its flush creates no
\* job and changes no column.
C15_ReschedulePrecondition ==
    [][/\ client'.op = "reschedule"
       /\ \/ posts[client'.post].status # SCHEDULED
          \/ JobsOf(client'.post) = {}
       => /\ client.pc = "idle" => client'.pc = "refused"
          /\ client.pc = "read" /\ client'.pc = "flushed"
             => jobs' = jobs /\ client'.row = KeepRow]_vars

\* C16: expiration boundary.  A run of expire_posts in which no statement of the
\* store fails cancels every SCHEDULED post whose scheduled_at is more than the
\* grace window before now, and leaves every other post as it was.
C16_ExpirationBoundary ==
    [][ExpirePosts \/ ExpireAware
       => \A p \in PostIds :
             IF /\ posts[p].status = SCHEDULED
                /\ posts[p].scheduled_at # NoTime
                /\ now - posts[p].scheduled_at > GraceWindow
             THEN posts'[p].status = CANCELLED
             ELSE posts'[p] = posts[p]]_vars

\* C17: sweep isolation.  In a run of check_scheduled_posts or expire_posts whose
\* commit goes through, a post whose own update goes through has its result
\* committed, whatever happened to the posts before it in the run.
C17_SweepIsolation ==
    [][/\ \A order \in Orders(sweep), outcome \in [sweep -> {"ok", "marked", "raised"}] :
             SweepEnd(order, outcome, TRUE)
             => \A p \in sweep : outcome[p] = "ok" => posts'[p].status = PUBLISHED
       /\ \A order \in Orders(Overdue), n \in 0..Cardinality(Overdue) :
             ExpireRun(order, n, TRUE)
             => \A i \in 1..Cardinality(Overdue) :
                   i # n + 1 => posts'[order[i]].status = CANCELLED]_vars

C19_OneLiveJob ==
    /\ [](\A p \in PostIds : Cardinality(JobsOf(p)) <= 1)
    /\ [][\A p \in PostIds :
             LET after == {j \in jobs' : j.kind = "publish_post" /\ j.post = p} IN
             IF /\ client.pc = "read" /\ client'.pc = "flushed"
                /\ client.post = p /\ client.op \in {"schedule", "reschedule"}
             THEN after = {PublishJob(p, client.t)}
             ELSE after \subseteq JobsOf(p)]_vars

\* The post was scheduled and then rescheduled, and the store holds one job for
\* it, with the run time of the reschedule.
C19_Witness ==
    \E p \in PostIds :
        /\ moved[p] # NoTime
        /\ posts[p].status = SCHEDULED
        /\ posts[p].scheduled_at = moved[p]
        /\ JobsOf(p) = {PublishJob(p, moved[p])}

\* C20: published_at is written exactly once.  It changes only in a step that
\* takes the post into PUBLISHED, that step sets it, and once set it is never
\* changed or cleared.
C20_PublishedAtOnce ==
    [][\A p \in PostIds :
          Exists(p)
          => /\ posts[p].published_at # NoTime
                => posts'[p].published_at = posts[p].published_at
             /\ posts'[p].published_at # posts[p].published_at
                => posts[p].status # PUBLISHED /\ posts'[p].status = PUBLISHED
             /\ posts[p].status # PUBLISHED /\ posts'[p].status = PUBLISHED
                => posts'[p].published_at # NoTime]_vars

\* C21: error_message is written only on the transition into ERROR.  Every step
\* that changes a post's error_message leaves the post with status ERROR.
C21_ErrorMessageOnlyOnError ==
    [][\A p \in PostIds :
          Exists(p) /\ posts'[p].error_message # posts[p].error_message
          => posts'[p].status = ERROR]_vars

\* C22: sole writer.  Every step that takes a post from SCHEDULED to PUBLISHED
\* or from SCHEDULED to ERROR is the end of a timer run or of a sweep, which
\* are the callers of publish_scheduled_post.
C22_SoleWriter ==
    [][\A p \in PostIds :
          posts[p].status = SCHEDULED /\ posts'[p].status \in {PUBLISHED, ERROR}
          => \/ timer[p] # "idle" /\ timer'[p] = "idle"
             \/ p \in sweep /\ sweep' = {}]_vars

\* ------------------------------------------------- a burst of due jobs
\* Every post is created and scheduled once, for a time not yet past, and the
\* scheduler runs _publish_post for each date job that comes due: the
\* AsyncIOExecutor starts one coroutine per due job, max_instances limiting the
\* runs of one job id only.
BurstNext ==
    \/ Tick
    \/ \E p \in PostIds : CreateDraft(p)
    \/ \E p \in PostIds, t \in RunTimes :
          posts[p].status = DRAFT /\ t >= now /\ ClientRead("schedule", p, t)
    \/ \E groups \in GroupSets : ClientFlush(groups)
    \/ ClientCommit
    \/ Start
    \/ \E p \in PostIds : Fire(p)
    \/ \E p \in PostIds : TimerPublish(p)
    \/ \E p \in PostIds : TimerFail(p)

BurstSpec == Init /\ [][BurstNext]_vars

\* The posts with a run of _publish_post in progress.
InProgress == {p \in PostIds : timer[p] # "idle"}

\* C23: bounded concurrency of firings.  The publish attempts in progress at one
\* time stay below a bound that does not grow with the posts whose jobs are due:
\* with more posts due than the bound, they are never all in progress together.
C23_BoundedFirings == Cardinality(InProgress) < Cardinality(PostIds)

\* ------------------------------------------------- PostScheduler on its own
\* PostScheduler.schedule_post, reschedule_post and cancel_scheduled_post called
\* with a post id, outside a composition: none of them reads the post store.
SchedulerCall(op, p, t) ==
    /\ client.pc = "idle"
    /\ jobs' = CASE op = "schedule"   -> SchedulerSchedule(jobs, p, t)
                 [] op = "reschedule" -> SchedulerReschedule(jobs, p, t)
                 [] op = "cancel"     -> SchedulerCancel(jobs, p)
    /\ UNCHANGED <<now, posts, records, running, swept, client, timer, sweep, failed, moved, escaped, singleton>>

\* The job store under the three calls, for post ids with and without a post,
\* and the timer runs of the jobs they leave.
SchedulerNext ==
    \/ Tick
    \/ \E p \in Authored : CreateDraft(p)
    \/ \E p \in PostIds, t \in RunTimes : SchedulerCall("schedule", p, t)
    \/ \E p \in PostIds, t \in RunTimes : SchedulerCall("reschedule", p, t)
    \/ \E p \in PostIds : SchedulerCall("cancel", p, NoTime)
    \/ \E p \in PostIds : ClientRefuse("reschedule", p)
    \/ \E p \in PostIds : ClientRefuse("cancel", p)
    \/ ClientReturn
    \/ Start
    \/ Stop
    \/ \E p \in PostIds : Fire(p)
    \/ \E p \in PostIds : Misfire(p)
    \/ \E p \in PostIds : TimerPublish(p)
    \/ \E p \in PostIds : TimerFail(p)

SchedulerSpec == Init /\ [][SchedulerNext]_vars

\* C24: operations on a nonexistent post fail without effect.  No step changes
\* the jobs of a post id that is not in the post store, or creates its row, other
\* than create_draft.
C24_NonexistentPost ==
    [][\A p \in PostIds :
          ~Exists(p)
          => /\ {j \in jobs' : j.kind = "publish_post" /\ j.post = p} = JobsOf(p)
             /\ posts'[p] # posts[p] => posts'[p] = NewRow]_vars

\* C25: reconciliation sweep selection and frame.  The query of a run selects
\* exactly the posts with status SCHEDULED and scheduled_at <= now; the run
\* invokes publish_scheduled_post on every one of them (the post ends PUBLISHED,
\* or its attempt is a failed one) and leaves every other post unchanged.
C25_SweepSelection ==
    [][/\ SweepStart
          => sweep' = {p \in PostIds : /\ posts[p].status = SCHEDULED
                                       /\ posts[p].scheduled_at # NoTime
                                       /\ posts[p].scheduled_at <= now}
       /\ SweepPublish \/ SweepFail
          => \A p \in PostIds :
                IF p \in sweep
                THEN posts'[p].status = PUBLISHED \/ failed'[p]
                ELSE posts'[p] = posts[p]]_vars

\* C26: no early publication.  A timer run or a sweep takes a SCHEDULED post to
\* PUBLISHED only when the post's committed scheduled_at is not later than now.
C26_NoEarlyPublication ==
    [][\A p \in PostIds :
          /\ posts[p].status = SCHEDULED
          /\ posts[p].scheduled_at # NoTime
          /\ posts'[p].status = PUBLISHED
          /\ TimerPublish(p) \/ SweepPublish \/ SweepFail
          => posts[p].scheduled_at <= now]_vars

\* ------------------------------------------------- posts made from templates
\* create_post_from_template with status SCHEDULED whatever scheduled_at is.
TemplateRowScheduled(groups, t) ==
    [NewRow EXCEPT !.status = SCHEDULED, !.scheduled_at = t, !.target_groups = groups]

\* The post_data of TemplateService.create_post_from_template: status is
\* SCHEDULED if scheduled_at is given and DRAFT otherwise.
TemplateRow(groups, t) ==
    [NewRow EXCEPT !.status = IF t # NoTime THEN SCHEDULED ELSE DRAFT,
                   !.scheduled_at = t,
                   !.target_groups = groups]

\* TemplateService.create_post_from_template(..., target_groups, scheduled_at),
\* committed when its session ends.  It adds no job.
CreateFromTemplate(p, groups, t) ==
    /\ client.pc = "idle"
    /\ ~Exists(p)
    /\ posts' = [posts EXCEPT ![p] = TemplateRow(groups, t)]
    /\ UNCHANGED <<now, records, jobs, running, swept, client, timer, sweep, failed, moved, escaped, singleton>>

\* The engine with posts authored as drafts or from templates.
AuthoringNext ==
    \/ EngineNext
    \/ \E p \in Authored, groups \in GroupSets \cup {{}}, t \in RunTimes \cup {NoTime} :
          CreateFromTemplate(p, groups, t)

AuthoringSpec == Init /\ [][AuthoringNext]_vars

\* C27: a post with status SCHEDULED has scheduled_at set, after any sequence of
\* create_draft, create_post_from_template, publish_post, schedule_post,
\* reschedule_post and cancel_post.
C27_ScheduledHasTime ==
    \A p \in PostIds : posts[p].status = SCHEDULED => posts[p].scheduled_at # NoTime

\* A post created from a template with no target group and a scheduled_at is
\* SCHEDULED, and a reschedule has moved it.
C27_Witness ==
    \E p \in PostIds :
        /\ posts[p].status = SCHEDULED
        /\ posts[p].target_groups = {}
        /\ moved[p] # NoTime
        /\ posts[p].scheduled_at = moved[p]

\* ------------------------------------------------- the facade compositions
\* The job store after a PostScheduler call of a composition in which a job store
\* statement raised: get_job raised (nothing is changed), or remove_job went
\* through and add_job raised.  The call logs the error and returns False.
FailedJobs ==
    CASE client.op = "schedule"   -> {jobs, SchedulerCancel(jobs, client.post)}
      [] client.op = "reschedule" -> {jobs, SchedulerCancel(jobs, client.post)}
      [] client.op = "cancel"     -> {jobs}

\* The flush of the service call, then a PostScheduler call that returns False.
\* The compositions do not read what the PostScheduler call returns, and go on
\* to uow.commit().
ClientFlushJobsFail(groups) ==
    /\ client.pc = "read"
    /\ client' = [client EXCEPT
                    !.pc = "flushed",
                    !.row = ServiceUpdate(client.op, client.t, groups, client.row)]
    /\ jobs' \in FailedJobs
    /\ failed' = IF client.op = "schedule"
                 THEN [failed EXCEPT ![client.post] = FALSE] ELSE failed
    /\ moved' = [moved EXCEPT ![client.post] = NoTime]
    /\ UNCHANGED <<now, posts, records, running, swept, timer, sweep, escaped, singleton>>

\* The authoring layer restricted to the compositions of
\* examples/scheduler_usage.py, with either half reporting failure, beside the
\* scheduler's jobs.
FacadeNext ==
    \/ Tick
    \/ \E p \in Authored : CreateDraft(p)
    \/ \E p \in PostIds, t \in RunTimes : ClientRead("schedule", p, t)
    \/ \E p \in PostIds, t \in RunTimes : ClientRead("reschedule", p, t)
    \/ \E p \in PostIds : ClientRead("cancel", p, NoTime)
    \/ \E p \in PostIds : ClientRefuse("reschedule", p)
    \/ \E p \in PostIds : ClientRefuse("cancel", p)
    \/ ClientReturn
    \/ \E groups \in GroupSets : ClientFlush(groups)
    \/ \E groups \in GroupSets : ClientFlushJobsFail(groups)
    \/ ClientCommit
    \/ Start
    \/ Stop
    \/ \E p \in PostIds : Fire(p)
    \/ \E p \in PostIds : Misfire(p)
    \/ \E p \in PostIds : TimerPublish(p)
    \/ \E p \in PostIds : TimerFail(p)
    \/ SweepStart
    \/ SweepPublish
    \/ SweepFail
    \/ ExpirePosts
    \/ ExpireFail
    \/ ExpireAware

FacadeSpec == Init /\ [][FacadeNext]_vars

\* C28: store agreement.  When no composition is under way, every job
\* 'publish_post_<id>' in the store has the run time that is the scheduled_at of
\* its post.
C28_StoreAgreement ==
    client.pc = "idle"
    => \A p \in PostIds : \A j \in JobsOf(p) : j.run_at = posts[p].scheduled_at

InitPostSchedulerAlways ==
    /\ singleton.made < MaxInstances
    /\ singleton' = [post_scheduler |-> singleton.made + 1,
                     made |-> singleton.made + 1,
                     started |-> singleton.started \cup {singleton.made + 1},
                     raised |-> FALSE,
                     returned |-> singleton.made + 1]
    /\ running' = TRUE
    /\ jobs' = AddJob(AddJob(jobs, CheckJob), ExpireJob)
    /\ swept' = FALSE
    /\ UNCHANGED <<now, posts, records, client, timer, sweep, failed, moved, escaped>>

\* init_post_scheduler: if the global is None, make a PostScheduler, bind it to
\* the global and start it; return the global.
InitPostScheduler ==
    IF singleton.post_scheduler = NoInstance
    THEN /\ singleton.made < MaxInstances
         /\ singleton' = [post_scheduler |-> singleton.made + 1,
                          made |-> singleton.made + 1,
                          started |-> singleton.started \cup {singleton.made + 1},
                          raised |-> FALSE,
                          returned |-> singleton.made + 1]
         /\ running' = TRUE
         /\ jobs' = AddJob(AddJob(jobs, CheckJob), ExpireJob)
         /\ swept' = FALSE
         /\ UNCHANGED <<now, posts, records, client, timer, sweep, failed, moved, escaped>>
    ELSE /\ singleton' = [singleton EXCEPT !.raised = FALSE,
                                           !.returned = singleton.post_scheduler]
         /\ UNCHANGED <<now, posts, records, jobs, running, swept, client, timer, sweep,
                        failed, moved, escaped>>

\* get_post_scheduler: RuntimeError if the global is None, the global otherwise.
GetPostScheduler ==
    /\ singleton' = [singleton EXCEPT
                        !.raised = (singleton.post_scheduler = NoInstance),
                        !.returned = singleton.post_scheduler]
    /\ UNCHANGED <<now, posts, records, jobs, running, swept, client, timer, sweep,
                   failed, moved, escaped>>

\* shutdown_post_scheduler: if the global is bound, stop the instance and set the
\* global to None.
ShutdownPostScheduler ==
    IF singleton.post_scheduler # NoInstance
    THEN /\ singleton' = [singleton EXCEPT
                             !.post_scheduler = NoInstance,
                             !.started = @ \ {singleton.post_scheduler},
                             !.raised = FALSE,
                             !.returned = NoInstance]
         /\ running' = FALSE
         /\ timer' = [p \in PostIds |-> "idle"]
         /\ sweep' = {}
         /\ UNCHANGED <<now, posts, records, jobs, swept, client, failed, moved, escaped>>
    ELSE /\ singleton' = [singleton EXCEPT !.raised = FALSE, !.returned = NoInstance]
         /\ UNCHANGED <<now, posts, records, jobs, running, swept, client, timer, sweep,
                        failed, moved, escaped>>

\* scheduler = await get_post_scheduler(); await scheduler.schedule_post(...), as
\* the compositions do: a PostScheduler call on the instance the last global call
\* returned.
OnReturned(op, p, t) ==
    /\ singleton.returned # NoInstance
    /\ jobs' = CASE op = "schedule"   -> SchedulerSchedule(jobs, p, t)
                 [] op = "reschedule" -> SchedulerReschedule(jobs, p, t)
                 [] op = "cancel"     -> SchedulerCancel(jobs, p)
    /\ UNCHANGED <<now, posts, records, running, swept, client, timer, sweep, failed, moved,
                   escaped, singleton>>

\* The three global functions called in any order as time passes, and the date
\* jobs added through the instance they return.
SingletonNext ==
    \/ Tick
    \/ InitPostScheduler
    \/ GetPostScheduler
    \/ ShutdownPostScheduler
    \/ \E p \in PostIds, t \in RunTimes : OnReturned("schedule", p, t)
    \/ \E p \in PostIds : OnReturned("cancel", p, NoTime)

SingletonSpec == Init /\ [][SingletonNext]_vars

====
